---- MODULE Spec2Model ----
(***************************************************************************)
(* M-Pesa Mozambique C2B payment engine: PaymentService.initiate_payment,  *)
(* PaymentService.process_callback, the /payments/callback route and the   *)
(* /payments/status route, over the payment_transactions,                  *)
(* payment_webhook_logs and payment_audit_logs tables.                     *)
(*                                                                         *)
(* Every request runs in its own database session (READ COMMITTED).  A     *)
(* step of the model is one database round trip or one outbound call of    *)
(* the handler; a commit makes the session's writes visible at once and    *)
(* releases its row locks.                                                 *)
(***************************************************************************)
EXTENDS Integers, FiniteSets, Sequences, TLC

\* ------------------------------------------------------------------ bounds
\* concurrent initiate_payment requests
NumInit == 2
\* callback deliveries
NumCb == 2
\* status polls
NumPoll == 1

Inits == 1..NumInit
Cbs == 1..NumCb
Polls == 1..NumPoll

\* ------------------------------------------------------------------ inputs
NoKey == "none"
Keys == {"K1"}
\* request.amount in units of 0.01 MZN; call s asks for 1.00, 1.50, 2.00, ...
\* so that two calls never ask for the same amount
request_amount(s) == 50 + 50 * s

\* validate_amount: at least 1 MZN
MinAmount == 100
\* validate_amount: at most 150,000 MZN
MaxAmount == 15000000

\* the validator accepts every amount
validate_amount_any(v) == TRUE

\* PaymentInitiateRequest.validate_amount (with Field(gt=0)): TRUE when the
\* amount passes, FALSE when it raises ValueError
validate_amount(v) == v > 0 /\ ~(v < MinAmount) /\ ~(v > MaxAmount)

\* the amounts call s may be made with: its own valid amount, 0.99 MZN and
\* 150,000.01 MZN
Amounts(s) == {request_amount(s), MinAmount - 1, MaxAmount + 1}

None == "None"

\* the provider's synchronous answers: HTTP status and output_ResponseCode
\* ("" when the body carries no output_ResponseCode)
SyncResponses ==
    { [status_code |-> 201, output_ResponseCode |-> "INS-0"],
      [status_code |-> 409, output_ResponseCode |-> "INS-5"],
      [status_code |-> 400, output_ResponseCode |-> "INS-999"],
      [status_code |-> 500, output_ResponseCode |-> ""] }

NoResponse == [status_code |-> 0, output_ResponseCode |-> ""]

\* input_ResultCode values of a callback payload
ResultCodes == {"0", "INS-6", None}

\* input_ResultDesc values a payload with the given input_ResultCode carries
\* (the provider words every result)
ResultDescs(code) ==
    IF code = "0" THEN {"Request Processed Successfully"}
    ELSE {"as worded by the provider"}

\* -------------------------------------------------------------- PaymentStatus
PENDING == "pending"
PROCESSING == "processing"
COMPLETED == "completed"
FAILED == "failed"
CANCELLED == "cancelled"
EXPIRED == "expired"

PaymentStatus == {PENDING, PROCESSING, COMPLETED, FAILED, CANCELLED, EXPIRED}
Terminal == {COMPLETED, FAILED, CANCELLED, EXPIRED}

\* ------------------------------------------------------------- error mapping
errors ==
    [c \in {"INS-0", "INS-1", "INS-5", "INS-6", "INS-9", "INS-10", "INS-13",
            "INS-14", "INS-15", "INS-16", "INS-17", "INS-18", "INS-19",
            "INS-20", "INS-21", "INS-22", "INS-23", "INS-24", "INS-25",
            "INS-26", "INS-2001", "INS-2006", "INS-2051", "INS-2057"} |->
       CASE c = "INS-0" -> "Request processed successfully"
         [] c = "INS-1" -> "Internal error"
         [] c = "INS-5" -> "Transaction declined: Duplicate transaction"
         [] c = "INS-6" -> "Transaction failed"
         [] c = "INS-9" -> "Timeout waiting for response"
         [] c = "INS-10" -> "Insufficient balance"
         [] c = "INS-13" -> "Invalid shortcode"
         [] c = "INS-14" -> "Invalid reference"
         [] c = "INS-15" -> "Invalid amount"
         [] c = "INS-16" -> "Unable to process - try again later"
         [] c = "INS-17" -> "Invalid transaction reference"
         [] c = "INS-18" -> "Invalid transaction ID"
         [] c = "INS-19" -> "Transaction in progress"
         [] c = "INS-20" -> "Invalid MSISDN (phone number)"
         [] c = "INS-21" -> "Parameter validation failed"
         [] c = "INS-22" -> "Invalid operation"
         [] c = "INS-23" -> "Invalid API key"
         [] c = "INS-24" -> "Invalid API host"
         [] c = "INS-25" -> "Request cancelled by user"
         [] c = "INS-26" -> "Transaction cancelled"
         [] c = "INS-2001" -> "Initiator authentication error"
         [] c = "INS-2006" -> "Insufficient balance"
         [] c = "INS-2051" -> "Customer profile has problem"
         [] c = "INS-2057" -> "Provider rejected request"]

\* errors.get(code, f"Unknown error: {code}")
get_error_message(code) ==
    IF code \in DOMAIN errors THEN errors[code] ELSE "Unknown error: " \o code

\* output_ResponseDesc of a synchronous answer, as the provider worded it
output_ResponseDesc(resp) == "provider: " \o resp.output_ResponseCode


\* ------------------------------------------------------- reference generators
\* _generate_transaction_id / _generate_third_party_ref: fresh values, one per
\* call s of initiate_payment
generate_transaction_id(s) == "TXN" \o ToString(s)
generate_third_party_ref(s) == "REF" \o ToString(s)

\* identifiers the provider assigns to the request of call s
output_ConversationID(s) == "CONV" \o ToString(s)
output_TransactionID(s) == "SYNCTX" \o ToString(s)
input_TransactionID(s) == "CBTX" \o ToString(s)

\* a NULL Numeric column
NullAmount == -1

\* no request was posted
NoAmount == -1

\* ---------------------------------------------------------------------- state
VARIABLES
    payment_transactions,   \* committed rows, keyed by the call that made them
    payment_webhook_logs,   \* committed webhook log rows, keyed by delivery
    row_lock,               \* per row: the session holding its FOR UPDATE lock
    calls,                  \* the initiate_payment requests
    deliveries,             \* the /payments/callback requests
    contacted,              \* calls whose C2B request was posted to the provider
    sent,                   \* per call: input_ThirdPartyReference it posted
    transitions,            \* per row: callbacks that wrote its status
    payment_audit_logs,     \* committed audit log rows
    input_Amount,           \* per call: input_Amount it posted, in whole MZN
    polls                   \* the /payments/status requests

vars == <<payment_transactions, payment_webhook_logs, row_lock, calls,
          deliveries, contacted, sent, transitions, payment_audit_logs,
          input_Amount, polls>>

Free == "free"
InitSession(s) == "init" \o ToString(s)
CbSession(d) == "cb" \o ToString(d)

\* PaymentTransaction(...) as built in initiate_payment
PaymentTransaction(s, key, amount) ==
    [ transaction_id |-> generate_transaction_id(s),
      third_party_reference |-> generate_third_party_ref(s),
      conversation_id |-> None,
      provider_transaction_id |-> None,
      status |-> PENDING,
      amount |-> amount,
      net_amount |-> NullAmount,
      idempotency_key |-> key,
      provider_response_code |-> None,
      provider_response_description |-> None,
      provider_raw_response |-> None,
      callback_raw_data |-> None,
      completed_at |-> None ]

NoTransaction == PaymentTransaction(0, NoKey, 0)

IdleCall ==
    [ pc |-> "idle", idempotency_key |-> NoKey, amount |-> 0,
      response |-> NoResponse, transaction |-> NoTransaction,
      error_code |-> None, transaction_id |-> None, status |-> None,
      key_existed |-> FALSE ]

NoPayload ==
    [ input_ThirdPartyReference |-> None, input_OriginalConversationID |-> None,
      input_TransactionID |-> None, input_ResultCode |-> None,
      input_ResultDesc |-> None ]

\* what the route answers: the HTTP status and the acknowledgment's fields
\* (None for a field the answer does not carry)
NoAnswer ==
    [ status_code |-> 0, output_ResponseCode |-> None,
      output_OriginalConversationID |-> None,
      output_ThirdPartyConversationID |-> None ]

\* a /payments/status request: the id asked for and what came back
IdlePoll == [ pc |-> "idle", transaction_id |-> None, status |-> None ]

IdleDelivery ==
    [ pc |-> "idle", body |-> None, callback_data |-> NoPayload, found |-> 0,
      transaction |-> NoTransaction, pending_at_lookup |-> FALSE,
      after |-> {}, raised |-> FALSE, status_code |-> 0,
      output_ResponseCode |-> None,
      output_OriginalConversationID |-> None,
      output_ThirdPartyConversationID |-> None ]

Init ==
    /\ payment_transactions = << >>
    /\ payment_webhook_logs = << >>
    /\ row_lock = [t \in Inits |-> Free]
    /\ calls = [s \in Inits |-> IdleCall]
    /\ deliveries = [d \in Cbs |-> IdleDelivery]
    /\ contacted = {}
    /\ sent = [s \in Inits |-> None]
    /\ transitions = [t \in Inits |-> 0]
    /\ payment_audit_logs = {}
    /\ input_Amount = [s \in Inits |-> NoAmount]
    /\ polls = [p \in Polls |-> IdlePoll]

\* ------------------------------------------------------------ store helpers
\* rows a WHERE idempotency_key == key matches
WithKey(key) ==
    {t \in DOMAIN payment_transactions :
        payment_transactions[t].idempotency_key = key}

\* no row lock is taken or honoured (a plain SELECT)
NoRowLock(t, me) == FALSE

\* the row is locked by a session other than me (FOR UPDATE SKIP LOCKED skips
\* it; an UPDATE of it waits)
LockedByOther(t, me) == row_lock[t] # Free /\ row_lock[t] # me

\* idempotency_key without its UNIQUE constraint
NoUniqueConstraint(key) == FALSE

\* the UNIQUE constraint on idempotency_key rejects the INSERT (NULLs are
\* never equal)
UniqueViolation(key) == key # NoKey /\ WithKey(key) # {}

\* the UPDATE a flush emits: only the attributes whose value differs from the
\* loaded one are written
Flush(row, loaded, assigned) ==
    [f \in DOMAIN row |-> IF assigned[f] # loaded[f] THEN assigned[f] ELSE row[f]]

\* _build_response: the projection returned to the caller
build_response(transaction) ==
    [ transaction_id |-> transaction.transaction_id,
      status |-> transaction.status ]


\* ------------------------------------------------------- initiate_payment
\* the idempotency lookup: SELECT ... WHERE idempotency_key = key
\* FOR UPDATE SKIP LOCKED; scalar_one_or_none() (0 when no row comes back)
IdempotencyLookup(s, key) ==
    IF key = NoKey THEN 0
    ELSE LET visible == {t \in WithKey(key) : ~LockedByOther(t, InitSession(s))}
         IN  IF visible = {} THEN 0 ELSE CHOOSE t \in visible : TRUE

\* router.py 68-69, schemas.py 50-55, 114-122: the request body fails
\* PaymentInitiateRequest's validation; the framework answers 422 and the
\* route's body never runs
ValidationError(s, amount) ==
    /\ calls[s].pc = "idle"
    /\ \A r \in 1..(s - 1) : calls[r].pc # "idle"
    /\ ~validate_amount(amount)
    /\ calls' = [calls EXCEPT ![s] =
         [@ EXCEPT !.pc = "done", !.amount = amount,
            !.error_code = "VALIDATION_ERROR"]]
    /\ UNCHANGED <<payment_transactions, payment_webhook_logs, row_lock,
                   deliveries, contacted, sent, transitions>>
    /\ UNCHANGED <<payment_audit_logs, input_Amount, polls>>

\* service.py 179-193: the validated request arrives with its inputs; the
\* idempotency check either finds the existing row (locks it, returns its
\* projection) or finds nothing and goes on to create
CheckIdempotency(s, key, amount) ==
    /\ calls[s].pc = "idle"
    /\ \A r \in 1..(s - 1) : calls[r].pc # "idle"
    /\ validate_amount(amount)
    /\ LET existing == IdempotencyLookup(s, key) IN
       IF existing # 0
       THEN /\ row_lock' = [row_lock EXCEPT ![existing] = InitSession(s)]
            /\ calls' = [calls EXCEPT ![s] =
                 [@ EXCEPT !.pc = "replayed", !.idempotency_key = key,
                    !.key_existed = TRUE,
                    !.amount = amount, !.error_code = "OK",
                    !.transaction_id =
                        build_response(payment_transactions[existing]).transaction_id,
                    !.status =
                        build_response(payment_transactions[existing]).status]]
       ELSE /\ row_lock' = row_lock
            /\ calls' = [calls EXCEPT ![s] =
                 [@ EXCEPT !.pc = "checked", !.idempotency_key = key,
                    !.key_existed = (key # NoKey /\ WithKey(key) # {}),
                    !.amount = amount]]
    /\ UNCHANGED <<payment_transactions, payment_webhook_logs, deliveries,
                   contacted, sent, transitions>>
    /\ UNCHANGED <<payment_audit_logs, input_Amount, polls>>

\* the request of a replay is over: get_db closes the session, which rolls
\* back and releases the lock its SELECT took
CloseReplay(s) ==
    /\ calls[s].pc = "replayed"
    /\ row_lock' = [t \in Inits |->
                      IF row_lock[t] = InitSession(s) THEN Free ELSE row_lock[t]]
    /\ calls' = [calls EXCEPT ![s].pc = "done"]
    /\ UNCHANGED <<payment_transactions, payment_webhook_logs, deliveries,
                   contacted, sent, transitions>>
    /\ UNCHANGED <<payment_audit_logs, input_Amount, polls>>

\* service.py 195-229: db.add(transaction); db.commit().  The INSERT either
\* commits the PENDING row or raises (unique violation) and the call ends
\* with DB_ERROR after the rollback
CreateTransaction(s) ==
    /\ calls[s].pc = "checked"
    /\ IF UniqueViolation(calls[s].idempotency_key)
       THEN /\ calls' = [calls EXCEPT ![s] =
                 [@ EXCEPT !.pc = "done", !.error_code = "DB_ERROR"]]
            /\ UNCHANGED payment_transactions
       ELSE LET transaction ==
                    PaymentTransaction(s, calls[s].idempotency_key, calls[s].amount)
            IN  /\ payment_transactions' = payment_transactions @@ (s :> transaction)
                /\ calls' = [calls EXCEPT ![s] =
                     [@ EXCEPT !.pc = "created", !.transaction = transaction]]
    /\ UNCHANGED <<payment_webhook_logs, row_lock, deliveries, contacted, sent,
                   transitions>>
    /\ UNCHANGED <<payment_audit_logs, input_Amount, polls>>

\* the request is posted although the commit failed
CreateTransactionRaisesPosts(s) ==
    /\ calls[s].pc = "checked"
    /\ contacted' = contacted \cup {s}
    /\ calls' = [calls EXCEPT ![s] =
         [@ EXCEPT !.pc = "done", !.error_code = "DB_ERROR"]]
    /\ UNCHANGED <<payment_transactions, payment_webhook_logs, row_lock,
                   deliveries, sent, transitions>>
    /\ UNCHANGED <<payment_audit_logs, input_Amount, polls>>

\* service.py 215-229: db.commit() raises for another reason than the unique
\* constraint (the store is unreachable); rollback, DB_ERROR
CreateTransactionRaises(s) ==
    /\ calls[s].pc = "checked"
    /\ calls' = [calls EXCEPT ![s] =
         [@ EXCEPT !.pc = "done", !.error_code = "DB_ERROR"]]
    /\ UNCHANGED <<payment_transactions, payment_webhook_logs, row_lock,
                   deliveries, contacted, sent, transitions>>
    /\ UNCHANGED <<payment_audit_logs, input_Amount, polls>>

\* the payload carries the transaction id in place of the reference
c2b_payload_transaction_id(s) == calls[s].transaction.transaction_id

\* c2b_payload["input_ThirdPartyReference"]
c2b_payload(s) == calls[s].transaction.third_party_reference

\* int(v) of a Decimal v held in units of 0.01: the whole part
int(v) == v \div 100

\* c2b_payload["input_Amount"]: str(int(request.amount)), in whole MZN
c2b_payload_input_Amount(s) == int(calls[s].amount)

\* the encryption failure is recorded as the transaction's failure
EncryptionFailsMarksFailed(s) ==
    /\ calls[s].pc = "created"
    /\ payment_transactions' = [payment_transactions EXCEPT ![s].status = FAILED]
    /\ calls' = [calls EXCEPT ![s] =
         [@ EXCEPT !.pc = "done", !.error_code = "ENCRYPTION_ERROR",
            !.transaction = NoTransaction]]
    /\ UNCHANGED <<payment_webhook_logs, row_lock, deliveries, contacted, sent,
                   transitions>>
    /\ UNCHANGED <<payment_audit_logs, input_Amount, polls>>

\* service.py 243-249: _get_auth_headers() raises ENCRYPTION_ERROR before the
\* request is posted; the generic handler rolls back and re-raises
EncryptionFails(s) ==
    /\ calls[s].pc = "created"
    /\ calls' = [calls EXCEPT ![s] =
         [@ EXCEPT !.pc = "done", !.error_code = "ENCRYPTION_ERROR",
            !.transaction = NoTransaction]]
    /\ UNCHANGED <<payment_transactions, payment_webhook_logs, row_lock,
                   deliveries, contacted, sent, transitions>>
    /\ UNCHANGED <<payment_audit_logs, input_Amount, polls>>

\* service.py 244-263: client.post(MPESA_C2B_URL, ...) is issued and the
\* provider answers with resp
PostC2B(s, resp) ==
    /\ calls[s].pc = "created"
    /\ contacted' = contacted \cup {s}
    /\ sent' = [sent EXCEPT ![s] = c2b_payload(s)]
    /\ calls' = [calls EXCEPT ![s] = [@ EXCEPT !.pc = "responded", !.response = resp]]
    /\ UNCHANGED <<payment_transactions, payment_webhook_logs, row_lock,
                   deliveries, transitions>>
    /\ input_Amount' = [input_Amount EXCEPT ![s] = c2b_payload_input_Amount(s)]
    /\ UNCHANGED <<payment_audit_logs, polls>>

\* service.py 251, 324-327: the post is answered with a body response.json()
\* cannot parse; the generic handler rolls back and re-raises, and the route
\* answers 500
PostC2BUnparseable(s) ==
    /\ calls[s].pc = "created"
    /\ contacted' = contacted \cup {s}
    /\ sent' = [sent EXCEPT ![s] = c2b_payload(s)]
    /\ calls' = [calls EXCEPT ![s] =
         [@ EXCEPT !.pc = "done", !.error_code = "INTERNAL",
            !.transaction = NoTransaction]]
    /\ UNCHANGED <<payment_transactions, payment_webhook_logs, row_lock,
                   deliveries, transitions>>
    /\ input_Amount' = [input_Amount EXCEPT ![s] = c2b_payload_input_Amount(s)]
    /\ UNCHANGED <<payment_audit_logs, polls>>

\* the post is issued and ends in httpx.RequestError (timeout, connection
\* error); the provider may have received the request
PostC2BNetworkError(s) ==
    /\ calls[s].pc = "created"
    /\ contacted' = contacted \cup {s}
    /\ sent' = [sent EXCEPT ![s] = c2b_payload(s)]
    /\ calls' = [calls EXCEPT ![s].pc = "network_error"]
    /\ UNCHANGED <<payment_transactions, payment_webhook_logs, row_lock,
                   deliveries, transitions>>
    /\ input_Amount' = [input_Amount EXCEPT ![s] = c2b_payload_input_Amount(s)]
    /\ UNCHANGED <<payment_audit_logs, polls>>

\* service.py 268
Accepted(resp) ==
    resp.status_code \in {200, 201} /\ resp.output_ResponseCode = "INS-0"

\* the acceptance is taken for the payment's completion
AcceptedUpdateCompleted(s, transaction, resp) ==
    [transaction EXCEPT
        !.status = COMPLETED,
        !.conversation_id = output_ConversationID(s),
        !.provider_transaction_id = output_TransactionID(s),
        !.provider_response_code = resp.output_ResponseCode,
        !.provider_response_description = output_ResponseDesc(resp),
        !.provider_raw_response = "sync"]

\* the acceptance writes the status PENDING along with the identifiers
AcceptedUpdateSetsPending(s, transaction, resp) ==
    [transaction EXCEPT
        !.status = PENDING,
        !.conversation_id = output_ConversationID(s),
        !.provider_transaction_id = output_TransactionID(s),
        !.provider_response_code = resp.output_ResponseCode,
        !.provider_response_description = output_ResponseDesc(resp),
        !.provider_raw_response = "sync"]

\* service.py 270-274: the attributes set when the request was accepted
AcceptedUpdate(s, transaction, resp) ==
    [transaction EXCEPT
        !.conversation_id = output_ConversationID(s),
        !.provider_transaction_id = output_TransactionID(s),
        !.provider_response_code = resp.output_ResponseCode,
        !.provider_response_description = output_ResponseDesc(resp),
        !.provider_raw_response = "sync"]

\* service.py 290
error_msg(resp) ==
    IF resp.output_ResponseCode # ""
    THEN get_error_message(resp.output_ResponseCode)
    ELSE output_ResponseDesc(resp)

\* the rejection stores the provider's wording instead of the mapped message
RejectedUpdateProviderDesc(transaction, resp) ==
    [transaction EXCEPT
        !.status = FAILED,
        !.provider_response_code = resp.output_ResponseCode,
        !.provider_response_description = output_ResponseDesc(resp),
        !.provider_raw_response = "sync"]

\* service.py 291-294: the attributes set when the request was rejected
RejectedUpdate(transaction, resp) ==
    [transaction EXCEPT
        !.status = FAILED,
        !.provider_response_code = resp.output_ResponseCode,
        !.provider_response_description = error_msg(resp),
        !.provider_raw_response = "sync"]

\* service.py 266-308: db.refresh(transaction), set the attributes for the
\* answer, commit.  The refresh and the commit are consecutive round trips and
\* the UPDATE writes the assigned columns whatever another session committed
\* in between, so the two are one step here; the UPDATE waits while another
\* session holds the row lock
HandleResponse(s) ==
    /\ calls[s].pc = "responded"
    /\ ~LockedByOther(s, InitSession(s))
    /\ LET resp == calls[s].response
           loaded == payment_transactions[s]
           assigned == IF Accepted(resp) THEN AcceptedUpdate(s, loaded, resp)
                       ELSE RejectedUpdate(loaded, resp)
       IN  /\ payment_transactions' = [payment_transactions EXCEPT
                 ![s] = Flush(@, loaded, assigned)]
           /\ calls' = [calls EXCEPT ![s] =
                 [@ EXCEPT !.pc = "done", !.transaction = NoTransaction,
                    !.error_code =
                        IF Accepted(resp) THEN "OK"
                        ELSE IF resp.output_ResponseCode # ""
                             THEN resp.output_ResponseCode ELSE "API_ERROR",
                    !.transaction_id =
                        IF Accepted(resp)
                        THEN build_response(assigned).transaction_id ELSE None,
                    !.status =
                        IF Accepted(resp)
                        THEN build_response(assigned).status ELSE None]]
    /\ UNCHANGED <<payment_webhook_logs, row_lock, deliveries, contacted, sent,
                   transitions>>
    /\ UNCHANGED <<payment_audit_logs, input_Amount, polls>>

\* the network-error handler marks the transaction failed
NetworkErrorUpdateFailed(transaction) ==
    [transaction EXCEPT !.status = FAILED,
                        !.provider_response_description = "Network error"]

\* service.py 314: the attribute set by the network-error handler
NetworkErrorUpdate(transaction) ==
    [transaction EXCEPT !.provider_response_description = "Network error"]

\* service.py 310-323: refresh, note the error on the row, commit, raise
\* NETWORK_ERROR
HandleNetworkError(s) ==
    /\ calls[s].pc = "network_error"
    /\ ~LockedByOther(s, InitSession(s))
    /\ LET loaded == payment_transactions[s] IN
       payment_transactions' = [payment_transactions EXCEPT
           ![s] = Flush(@, loaded, NetworkErrorUpdate(loaded))]
    /\ calls' = [calls EXCEPT ![s] =
         [@ EXCEPT !.pc = "done", !.transaction = NoTransaction,
            !.error_code = "NETWORK_ERROR"]]
    /\ UNCHANGED <<payment_webhook_logs, row_lock, deliveries, contacted, sent,
                   transitions>>
    /\ UNCHANGED <<payment_audit_logs, input_Amount, polls>>


\* ------------------------------------------------------- process_callback
\* the payloads the provider delivers (router.py 137-146): the result of a
\* request it has received, or a payload about a request this system never
\* made
CallbackPayloads ==
    UNION { { [ input_ThirdPartyReference |-> generate_third_party_ref(t),
                input_OriginalConversationID |-> output_ConversationID(t),
                input_TransactionID |-> input_TransactionID(t),
                input_ResultCode |-> code,
                input_ResultDesc |-> desc ] :
                t \in contacted, desc \in ResultDescs(code) } :
            code \in ResultCodes }
    \cup
    { [ input_ThirdPartyReference |-> generate_third_party_ref(0),
        input_OriginalConversationID |-> output_ConversationID(0),
        input_TransactionID |-> input_TransactionID(0),
        input_ResultCode |-> "0",
        input_ResultDesc |-> "Request Processed Successfully" ] }

\* SELECT ... WHERE conversation_id = ... FOR UPDATE SKIP LOCKED
ByConversationId(d, conversation_id) ==
    {t \in DOMAIN payment_transactions :
        /\ payment_transactions[t].conversation_id = conversation_id
        /\ ~LockedByOther(t, CbSession(d))}

\* SELECT ... WHERE third_party_reference = ... FOR UPDATE SKIP LOCKED
ByThirdPartyReference(d, third_party_ref) ==
    {t \in DOMAIN payment_transactions :
        /\ payment_transactions[t].third_party_reference = third_party_ref
        /\ ~LockedByOther(t, CbSession(d))}

\* service.py 377-394: by conversation id, falling back to the third-party
\* reference (0 when neither SELECT returns a row)
FindTransaction(d, callback_data) ==
    LET conversation_id == callback_data.input_OriginalConversationID
        third_party_ref == callback_data.input_ThirdPartyReference
        first == IF conversation_id # None
                 THEN ByConversationId(d, conversation_id) ELSE {}
        second == IF third_party_ref # None
                  THEN ByThirdPartyReference(d, third_party_ref) ELSE {}
    IN  IF first # {} THEN CHOOSE t \in first : TRUE
        ELSE IF second # {} THEN CHOOSE t \in second : TRUE
        ELSE 0

\* the rows the payload's identifiers name, locked or not
Named(callback_data) ==
    {t \in DOMAIN payment_transactions :
        \/ payment_transactions[t].third_party_reference =
               callback_data.input_ThirdPartyReference
        \/ /\ callback_data.input_OriginalConversationID # None
           /\ payment_transactions[t].conversation_id =
                  callback_data.input_OriginalConversationID}

\* router.py 163-170: the body is not JSON; the route answers the
\* acknowledgment without identifiers and process_callback is never called
ReceiveInvalidJson(d) ==
    /\ deliveries[d].pc = "idle"
    /\ \A e \in 1..(d - 1) : deliveries[e].pc # "idle"
    /\ deliveries' = [deliveries EXCEPT ![d] =
         [@ EXCEPT !.pc = "done", !.body = "not JSON",
            !.status_code = 200, !.output_ResponseCode = "1"]]
    /\ UNCHANGED <<payment_transactions, payment_webhook_logs, row_lock, calls,
                   contacted, sent, transitions>>
    /\ UNCHANGED <<payment_audit_logs, input_Amount, polls>>

\* router.py 163-175: the body is JSON but no object (a list, a string, a
\* number); request.json() returns it, callback_data.get raises outside
\* every try block and the framework answers 500
ReceiveNonObject(d) ==
    /\ deliveries[d].pc = "idle"
    /\ \A e \in 1..(d - 1) : deliveries[e].pc # "idle"
    /\ deliveries' = [deliveries EXCEPT ![d] =
         [@ EXCEPT !.pc = "done", !.body = "not an object",
            !.status_code = 500]]
    /\ UNCHANGED <<payment_transactions, payment_webhook_logs, row_lock, calls,
                   contacted, sent, transitions>>
    /\ UNCHANGED <<payment_audit_logs, input_Amount, polls>>

\* router.py 162-193, service.py 352-394: the delivery arrives, the webhook
\* log row is added to the session (not yet flushed) and the transaction is
\* looked up; a row that comes back is locked and loaded
ReceiveCallback(d, callback_data) ==
    /\ deliveries[d].pc = "idle"
    /\ \A e \in 1..(d - 1) : deliveries[e].pc # "idle"
    /\ LET found == FindTransaction(d, callback_data) IN
       /\ row_lock' = IF found = 0 THEN row_lock
                      ELSE [row_lock EXCEPT ![found] = CbSession(d)]
       /\ deliveries' = [deliveries EXCEPT ![d] =
            [@ EXCEPT !.pc = "located", !.body = "object",
               !.callback_data = callback_data,
               !.found = found,
               !.transaction = IF found = 0 THEN NoTransaction
                               ELSE payment_transactions[found],
               !.pending_at_lookup =
                   \E t \in Named(callback_data) :
                       payment_transactions[t].status = PENDING,
               !.after = {e \in Cbs : deliveries[e].pc = "done"}]]
    /\ UNCHANGED <<payment_transactions, payment_webhook_logs, calls,
                   contacted, sent, transitions>>
    /\ UNCHANGED <<payment_audit_logs, input_Amount, polls>>

\* every non-PENDING transaction is written again
AlreadyProcessedNever(transaction) == FALSE

\* service.py 407: transaction.status != PaymentStatus.PENDING
AlreadyProcessed(transaction) == transaction.status # PENDING

\* str(result_code): the text of a result code, "None" for a missing one
str(result_code) == IF result_code = None THEN "'None'" ELSE result_code

\* service.py 424: str(result_code) == "0"
IsSuccess(result_code) == str(result_code) = "0"

\* the settled amount is written over the amount
CallbackUpdateSettlesAmount(d, transaction, callback_data) ==
    [transaction EXCEPT
        !.callback_raw_data = CbSession(d),
        !.status = IF callback_data.input_ResultCode = "0" THEN COMPLETED ELSE FAILED,
        !.amount = int(transaction.amount) * 100,
        !.provider_response_code = str(callback_data.input_ResultCode)]

\* service.py 420-443: the attributes a callback sets on a PENDING transaction
CallbackUpdate(d, transaction, callback_data) ==
    LET result_code == callback_data.input_ResultCode
        result_desc == callback_data.input_ResultDesc
    IN
    IF IsSuccess(result_code)
    THEN [transaction EXCEPT
            !.callback_raw_data = CbSession(d),
            !.status = COMPLETED,
            !.provider_transaction_id = callback_data.input_TransactionID,
            !.completed_at = "set",
            !.net_amount = transaction.amount,
            !.provider_response_code = str(result_code),
            !.provider_response_description = result_desc]
    ELSE [transaction EXCEPT
            !.callback_raw_data = CbSession(d),
            !.status = FAILED,
            !.provider_response_code = str(result_code),
            !.provider_response_description =
                IF result_desc # None THEN result_desc
                ELSE get_error_message(str(result_code))]

\* service.py 402: the webhook log row of a payload that matched nothing
NotFoundLog(d) ==
    [ raw_body |-> deliveries[d].callback_data, transaction_id |-> 0,
      is_processed |-> FALSE, processing_error |-> "Transaction not found" ]

\* service.py 412-413: the webhook log row of a payload whose transaction is
\* no longer PENDING
AlreadyProcessedLog(d, t) ==
    [ raw_body |-> deliveries[d].callback_data, transaction_id |-> t,
      is_processed |-> FALSE, processing_error |-> "Already processed" ]

\* the log row is linked but not marked processed
AppliedLogUnprocessed(d, t) ==
    [ raw_body |-> deliveries[d].callback_data, transaction_id |-> t,
      is_processed |-> FALSE, processing_error |-> None ]

\* service.py 417, 452-453: the webhook log row of a payload that was applied
AppliedLog(d, t) ==
    [ raw_body |-> deliveries[d].callback_data, transaction_id |-> t,
      is_processed |-> TRUE, processing_error |-> None ]

\* every acknowledgment asks the provider to retry
mpesa_callback_ack_retry(raised) == "1"

\* router.py 195-210: the acknowledgment's output_ResponseCode
mpesa_callback_ack(raised) == IF raised THEN "1" ELSE "0"

\* router.py 172-173, 196-210: the acknowledgment of a parsed payload
mpesa_callback(callback_data, raised) ==
    [ status_code |-> 200,
      output_ResponseCode |-> mpesa_callback_ack(raised),
      output_OriginalConversationID |-> callback_data.input_OriginalConversationID,
      output_ThirdPartyConversationID |-> callback_data.input_ThirdPartyReference ]

\* the delivery's request is over with the given answer
Answered(delivery, answer, raised) ==
    [delivery EXCEPT
        !.pc = "done", !.transaction = NoTransaction, !.raised = raised,
        !.status_code = answer.status_code,
        !.output_ResponseCode = answer.output_ResponseCode,
        !.output_OriginalConversationID = answer.output_OriginalConversationID,
        !.output_ThirdPartyConversationID = answer.output_ThirdPartyConversationID]

\* service.py 396-457: not found / already processed / apply, each ending in
\* one commit that inserts the webhook log row, writes the transaction and
\* releases the lock; the route then acknowledges
FinishCallback(d) ==
    /\ deliveries[d].pc = "located"
    /\ LET t == deliveries[d].found
           loaded == deliveries[d].transaction
           callback_data == deliveries[d].callback_data
       IN
       /\ IF t = 0
          THEN /\ payment_webhook_logs' = payment_webhook_logs @@ (d :> NotFoundLog(d))
               /\ UNCHANGED <<payment_transactions, transitions>>
          ELSE IF AlreadyProcessed(loaded)
          THEN /\ payment_webhook_logs' =
                    payment_webhook_logs @@ (d :> AlreadyProcessedLog(d, t))
               /\ UNCHANGED <<payment_transactions, transitions>>
          ELSE /\ payment_webhook_logs' =
                    payment_webhook_logs @@ (d :> AppliedLog(d, t))
               /\ payment_transactions' = [payment_transactions EXCEPT
                    ![t] = Flush(@, loaded, CallbackUpdate(d, loaded, callback_data))]
               /\ transitions' = [transitions EXCEPT ![t] = @ + 1]
       /\ row_lock' = [u \in Inits |->
                         IF row_lock[u] = CbSession(d) THEN Free ELSE row_lock[u]]
       /\ deliveries' = [deliveries EXCEPT ![d] =
            Answered(@, mpesa_callback(callback_data, FALSE), FALSE)]
    /\ UNCHANGED <<calls, contacted, sent>>
    /\ UNCHANGED <<payment_audit_logs, input_Amount, polls>>

\* service.py 459-462, router.py 203-210: a statement of process_callback
\* raises (the store is unreachable, a value does not fit its column); the
\* session is rolled back, which drops the pending webhook log row and the
\* pending update and releases the lock, and the route acknowledges "1"
CallbackRaises(d) ==
    /\ deliveries[d].pc = "located"
    /\ row_lock' = [u \in Inits |->
                      IF row_lock[u] = CbSession(d) THEN Free ELSE row_lock[u]]
    /\ deliveries' = [deliveries EXCEPT ![d] =
         Answered(@, mpesa_callback(deliveries[d].callback_data, TRUE), TRUE)]
    /\ UNCHANGED <<payment_transactions, payment_webhook_logs, calls,
                   contacted, sent, transitions>>
    /\ UNCHANGED <<payment_audit_logs, input_Amount, polls>>

\* ------------------------------------------------------------ expiry sweep
\* expires_at is five minutes after creation and the post to the provider
\* times out after 30 s: a row is past expires_at only after the request that
\* created it is over
PastExpiry(t) == calls[t].pc = "done"

\* the sweep expires every row past expires_at, whatever its status
ExpirySweepAnyStatus(t) ==
    /\ t \in DOMAIN payment_transactions
    /\ payment_transactions[t].status # EXPIRED
    /\ PastExpiry(t)
    /\ ~LockedByOther(t, "sweep")
    /\ payment_transactions' = [payment_transactions EXCEPT ![t].status = EXPIRED]
    /\ UNCHANGED <<payment_webhook_logs, row_lock, calls, deliveries, contacted,
                   sent, transitions>>
    /\ UNCHANGED <<payment_audit_logs, input_Amount, polls>>

\* the periodic sweep (contract only): a PENDING row past expires_at becomes
\* EXPIRED (its UPDATE waits while a session holds the row lock)
ExpirySweep(t) ==
    /\ t \in DOMAIN payment_transactions
    /\ payment_transactions[t].status = PENDING
    /\ PastExpiry(t)
    /\ ~LockedByOther(t, "sweep")
    /\ payment_transactions' = [payment_transactions EXCEPT ![t].status = EXPIRED]
    /\ UNCHANGED <<payment_webhook_logs, row_lock, calls, deliveries, contacted,
                   sent, transitions>>
    /\ UNCHANGED <<payment_audit_logs, input_Amount, polls>>

\* ------------------------------------------------------------ get_transaction_status
\* an unknown id is answered as a pending transaction
get_transaction_status_pending(transaction_id) ==
    LET match == {t \in DOMAIN payment_transactions :
                    payment_transactions[t].transaction_id = transaction_id}
    IN  IF match = {} THEN PENDING
        ELSE payment_transactions[CHOOSE t \in match : TRUE].status

\* service.py 468-513: the status a poll of transaction_id returns
get_transaction_status(transaction_id) ==
    LET match == {t \in DOMAIN payment_transactions :
                    payment_transactions[t].transaction_id = transaction_id}
    IN  IF match = {} THEN "NOT_FOUND"
        ELSE payment_transactions[CHOOSE t \in match : TRUE].status

\* ------------------------------------------------------------ specification
Next ==
    \/ \E s \in Inits : \E amount \in Amounts(s) : ValidationError(s, amount)
    \/ \E s \in Inits, key \in Keys \cup {NoKey} : \E amount \in Amounts(s) :
          CheckIdempotency(s, key, amount)
    \/ \E s \in Inits : CloseReplay(s)
    \/ \E s \in Inits : CreateTransaction(s)
    \/ \E s \in Inits : CreateTransactionRaises(s)
    \/ \E s \in Inits : EncryptionFails(s)
    \/ \E s \in Inits, resp \in SyncResponses : PostC2B(s, resp)
    \/ \E s \in Inits : PostC2BUnparseable(s)
    \/ \E s \in Inits : PostC2BNetworkError(s)
    \/ \E s \in Inits : HandleResponse(s)
    \/ \E s \in Inits : HandleNetworkError(s)
    \/ \E d \in Cbs : ReceiveInvalidJson(d)
    \/ \E d \in Cbs : ReceiveNonObject(d)
    \/ \E d \in Cbs, callback_data \in CallbackPayloads :
          ReceiveCallback(d, callback_data)
    \/ \E d \in Cbs : FinishCallback(d)
    \/ \E d \in Cbs : CallbackRaises(d)
    \/ \E t \in Inits : ExpirySweep(t)

Spec == Init /\ [][Next]_vars

\* ------------------------------------------------------------ status polls
\* the ids a poll may ask for: those of the calls, and one nobody was given
TransactionIds == {generate_transaction_id(s) : s \in 0..NumInit}

\* router.py 223-268: GET /payments/status/{transaction_id}; one SELECT, and
\* the answer is the row's projection or, for NOT_FOUND, a 404
get_payment_status(p, transaction_id) ==
    /\ polls[p].pc = "idle"
    /\ polls' = [polls EXCEPT ![p] =
         [ pc |-> "done", transaction_id |-> transaction_id,
           status |-> get_transaction_status(transaction_id) ]]
    /\ UNCHANGED <<payment_transactions, payment_webhook_logs, row_lock, calls,
                   deliveries, contacted, sent, transitions, payment_audit_logs,
                   input_Amount>>

\* the system with polls: the requests and deliveries of SmallInits and
\* SmallCbs, and the status polls
SmallInits == {1}
SmallCbs == {1}

NextSmall ==
    \/ \E s \in SmallInits : \E amount \in Amounts(s) : ValidationError(s, amount)
    \/ \E s \in SmallInits, key \in Keys \cup {NoKey} : \E amount \in Amounts(s) :
          CheckIdempotency(s, key, amount)
    \/ \E s \in SmallInits : CreateTransaction(s)
    \/ \E s \in SmallInits : CreateTransactionRaises(s)
    \/ \E s \in SmallInits : EncryptionFails(s)
    \/ \E s \in SmallInits, resp \in SyncResponses : PostC2B(s, resp)
    \/ \E s \in SmallInits : PostC2BUnparseable(s)
    \/ \E s \in SmallInits : PostC2BNetworkError(s)
    \/ \E s \in SmallInits : HandleResponse(s)
    \/ \E s \in SmallInits : HandleNetworkError(s)
    \/ \E d \in SmallCbs : ReceiveInvalidJson(d)
    \/ \E d \in SmallCbs : ReceiveNonObject(d)
    \/ \E d \in SmallCbs, callback_data \in CallbackPayloads :
          ReceiveCallback(d, callback_data)
    \/ \E d \in SmallCbs : FinishCallback(d)
    \/ \E d \in SmallCbs : CallbackRaises(d)
    \/ \E t \in SmallInits : ExpirySweep(t)
    \/ \E p \in Polls, transaction_id \in TransactionIds :
          get_payment_status(p, transaction_id)

SpecSmall == Init /\ [][NextSmall]_vars

\* a request that has started runs to its end, and the sweep keeps running
Running ==
    \/ \E s \in SmallInits : CreateTransaction(s)
    \/ \E s \in SmallInits : EncryptionFails(s)
    \/ \E s \in SmallInits, resp \in SyncResponses : PostC2B(s, resp)
    \/ \E s \in SmallInits : HandleResponse(s)
    \/ \E s \in SmallInits : HandleNetworkError(s)
    \/ \E d \in SmallCbs : FinishCallback(d)
    \/ \E d \in SmallCbs : CallbackRaises(d)

LiveSpecSmall ==
    /\ SpecSmall
    /\ WF_vars(Running)
    /\ \A t \in SmallInits : WF_vars(ExpirySweep(t))

TypeOK ==
    /\ DOMAIN payment_transactions \subseteq Inits
    /\ \A t \in DOMAIN payment_transactions :
          payment_transactions[t].status \in PaymentStatus
    /\ contacted \subseteq Inits


\* ===================================================================== claims
Rows == DOMAIN payment_transactions
Done(s) == calls[s].pc = "done"
Rejected(s) == calls[s].response # NoResponse /\ ~Accepted(calls[s].response)

\* C1: once a transaction's status is terminal, no step changes it.
C1_TerminalIsFinal ==
    [][\A t \in Rows :
          payment_transactions[t].status \in Terminal
              => payment_transactions'[t].status = payment_transactions[t].status]_vars

\* C2: a call that goes on to the provider has created exactly one row, in
\* PENDING, carrying the reference it posts, and the row is committed before
\* the request is posted.
C2_CommittedBeforePost ==
    [][/\ \A s \in contacted' \ contacted :
             /\ s \in Rows
             /\ payment_transactions[s].third_party_reference = sent'[s]
             /\ payment_transactions[s].transaction_id = generate_transaction_id(s)
       /\ \A t \in DOMAIN payment_transactions' \ Rows :
             /\ payment_transactions'[t].status = PENDING
             /\ t \notin contacted'
             /\ DOMAIN payment_transactions' = Rows \cup {t}]_vars

C2_Witness ==
    \E s \in contacted :
        /\ calls[s].idempotency_key \in Keys
        /\ ~calls[s].key_existed
        /\ s \in Rows
        /\ sent[s] = payment_transactions[s].third_party_reference
        /\ payment_transactions[s].status = PENDING

\* C3: for every idempotency key, the provider is posted to at most once.
C3_AtMostOnePost ==
    \A k \in Keys :
        Cardinality({s \in contacted : calls[s].idempotency_key = k}) <= 1

C3_Witness ==
    \E s1, s2 \in Inits :
        /\ s1 # s2
        /\ calls[s1].idempotency_key \in Keys
        /\ calls[s1].idempotency_key = calls[s2].idempotency_key
        /\ Done(s1) /\ Done(s2)
        /\ s1 \in contacted

\* C4: at most one row exists for an idempotency key, and once a call with
\* the key has returned successfully exactly one exists.
C4_OneRowPerKey ==
    \A k \in Keys :
        /\ Cardinality(WithKey(k)) <= 1
        /\ (\E s \in Inits : calls[s].idempotency_key = k /\ calls[s].error_code = "OK")
              => Cardinality(WithKey(k)) = 1

C4_Witness ==
    \E s1, s2 \in Inits :
        /\ s1 # s2
        /\ calls[s1].idempotency_key \in Keys
        /\ calls[s1].idempotency_key = calls[s2].idempotency_key
        /\ s1 \in Rows
        /\ ~calls[s2].key_existed
        /\ calls[s2].error_code = "DB_ERROR"
        /\ Cardinality(WithKey(calls[s1].idempotency_key)) = 1

\* C5: two calls sharing a key both return, with the same transaction_id, and
\* neither ends in the duplicate's error.
C5_BothReturnSameTransaction ==
    \A s1, s2 \in Inits :
        (/\ s1 # s2
         /\ calls[s1].idempotency_key \in Keys
         /\ calls[s1].idempotency_key = calls[s2].idempotency_key)
        => /\ calls[s2].error_code # "DB_ERROR"
           /\ (calls[s1].error_code = "OK" /\ calls[s2].error_code = "OK")
                 => calls[s1].transaction_id = calls[s2].transaction_id

\* C6: a call made while a committed row with its key exists is no error: it
\* returns that row's projection, creates no row and posts nothing.
C6_ReplayIsNoError ==
    \A s \in Inits :
        (calls[s].key_existed /\ Done(s))
        => /\ calls[s].error_code = "OK"
           /\ \E t \in WithKey(calls[s].idempotency_key) :
                 calls[s].transaction_id = payment_transactions[t].transaction_id
           /\ s \notin Rows
           /\ s \notin contacted

\* C7: a payload naming a PENDING transaction, delivered twice in sequence,
\* makes exactly one status transition and is acknowledged "0" both times.
C7_ReplayedCallback ==
    \A d1, d2 \in Cbs :
        (/\ d1 \in deliveries[d2].after
         /\ deliveries[d1].callback_data = deliveries[d2].callback_data
         /\ deliveries[d1].pending_at_lookup
         /\ deliveries[d2].pc = "done")
        => /\ deliveries[d1].output_ResponseCode = "0"
           /\ deliveries[d2].output_ResponseCode = "0"
           /\ \A t \in Named(deliveries[d1].callback_data) : transitions[t] = 1

\* C8: of the deliveries for one transaction at most one moves it out of
\* PENDING, and while a delivery holds the row it loaded nobody else has
\* written the row.
C8_OneCallbackApplies ==
    /\ \A t \in Rows : transitions[t] <= 1
    /\ \A d \in Cbs :
          (deliveries[d].pc = "located" /\ deliveries[d].found # 0)
          => payment_transactions[deliveries[d].found] = deliveries[d].transaction

C8_Witness ==
    \E d1, d2 \in Cbs :
        /\ d1 # d2
        /\ deliveries[d1].pc = "done" /\ deliveries[d2].pc = "done"
        /\ deliveries[d1].callback_data = deliveries[d2].callback_data
        /\ d1 \notin deliveries[d2].after /\ d2 \notin deliveries[d1].after
        /\ \E t \in Named(deliveries[d1].callback_data) : transitions[t] = 1

\* C9: handling a network error of the post leaves the status as it is (no
\* FAILED transition); a call that ended in NETWORK_ERROR leaves its
\* transaction PENDING until a callback or the sweep moves it.
C9_NetworkErrorKeepsStatus ==
    [][\A s \in Inits :
          /\ (calls[s].pc = "network_error" /\ calls'[s].pc = "done")
                => /\ payment_transactions'[s].status = payment_transactions[s].status
                   /\ calls'[s].error_code = "NETWORK_ERROR"
          /\ (calls[s].error_code = "NETWORK_ERROR" /\ transitions[s] = 0)
                => payment_transactions[s].status \in {PENDING, EXPIRED}]_vars

C9_Witness ==
    \E s \in Inits :
        /\ calls[s].error_code = "NETWORK_ERROR"
        /\ payment_transactions[s].status = COMPLETED
        /\ \E d \in Cbs : /\ d \in DOMAIN payment_webhook_logs
                          /\ payment_webhook_logs[d].transaction_id = s
                          /\ payment_webhook_logs[d].is_processed

C11_AcceptedStaysPending ==
    [][\A s \in Inits :
          /\ (/\ calls[s].pc = "responded"
              /\ calls'[s].pc = "done"
              /\ Accepted(calls[s].response))
             => /\ payment_transactions'[s].conversation_id = output_ConversationID(s)
                /\ payment_transactions'[s].provider_transaction_id =
                       output_TransactionID(s)
                /\ payment_transactions'[s].provider_raw_response = "sync"
                /\ payment_transactions'[s].status = payment_transactions[s].status
                /\ calls'[s].error_code = "OK"
          /\ (Done(s) /\ Accepted(calls[s].response) /\ transitions[s] = 0)
             => payment_transactions[s].status \in {PENDING, EXPIRED}]_vars

C11_Witness ==
    \E s \in Inits :
        /\ Done(s) /\ Accepted(calls[s].response)
        /\ payment_transactions[s].status = PENDING
        /\ payment_transactions[s].conversation_id = output_ConversationID(s)
        /\ payment_transactions[s].provider_transaction_id = output_TransactionID(s)
        /\ payment_transactions[s].provider_raw_response = "sync"
        /\ calls[s].status = PENDING

\* a success callback of transaction s has been applied
SuccessApplied(s) ==
    \E d \in DOMAIN payment_webhook_logs :
        /\ payment_webhook_logs[d].transaction_id = s
        /\ payment_webhook_logs[d].is_processed
        /\ payment_webhook_logs[d].raw_body.input_ResultCode = "0"

C13_UnknownCallback ==
    [][\A d \in Cbs :
          (/\ deliveries[d].pc = "located"
           /\ deliveries'[d].pc = "done"
           /\ Named(deliveries[d].callback_data) = {})
          => /\ payment_transactions' = payment_transactions
             /\ deliveries'[d].status_code = 200
             /\ ~deliveries'[d].raised
                => /\ deliveries'[d].output_ResponseCode = "0"
                   /\ d \in DOMAIN payment_webhook_logs'
                   /\ payment_webhook_logs'[d].transaction_id = 0
                   /\ ~payment_webhook_logs'[d].is_processed
                   /\ payment_webhook_logs'[d].processing_error =
                          "Transaction not found"]_vars

C13_Witness ==
    \E d \in Cbs :
        /\ deliveries[d].pc = "done"
        /\ deliveries[d].body = "object"
        /\ Named(deliveries[d].callback_data) = {}
        /\ Rows # {}
        /\ deliveries[d].output_ResponseCode = "0"
        /\ d \in DOMAIN payment_webhook_logs
        /\ payment_webhook_logs[d].processing_error = "Transaction not found"

\* C14: every delivery that has reached the matching logic, and every
\* delivery that is over, has its webhook log row committed, holding the
\* payload.
C14_LogPersisted ==
    \A d \in Cbs :
        deliveries[d].pc \in {"located", "done"}
        => /\ d \in DOMAIN payment_webhook_logs
           /\ payment_webhook_logs[d].raw_body = deliveries[d].callback_data

\* C15: every delivery is answered with a structured acknowledgment carrying
\* a processing code; a parsed payload's identifiers are echoed, and the code
\* is "1" exactly when the processing raised.
C15_StructuredAck ==
    \A d \in Cbs :
        deliveries[d].pc = "done"
        => /\ deliveries[d].status_code = 200
           /\ deliveries[d].output_ResponseCode \in {"0", "1"}
           /\ deliveries[d].body = "object"
              => /\ deliveries[d].output_OriginalConversationID =
                        deliveries[d].callback_data.input_OriginalConversationID
                 /\ deliveries[d].output_ThirdPartyConversationID =
                        deliveries[d].callback_data.input_ThirdPartyReference
                 /\ deliveries[d].raised <=> deliveries[d].output_ResponseCode = "1"

\* C16: a transaction a callback moved out of PENDING has that callback's
\* webhook log row committed, linked to it and marked processed; a webhook
\* log row marked processed is linked to a transaction that a callback moved
\* out of PENDING.
C16_AtomicCommit ==
    /\ \A t \in Rows :
          transitions[t] >= 1
          => \E d \in DOMAIN payment_webhook_logs :
                /\ payment_webhook_logs[d].transaction_id = t
                /\ payment_webhook_logs[d].is_processed
                /\ payment_transactions[t].callback_raw_data = CbSession(d)
    /\ \A d \in DOMAIN payment_webhook_logs :
          payment_webhook_logs[d].is_processed
          => /\ payment_webhook_logs[d].transaction_id \in Rows
             /\ payment_transactions[payment_webhook_logs[d].transaction_id].status
                    # PENDING
             /\ transitions[payment_webhook_logs[d].transaction_id] >= 1

C16_Witness ==
    \E d \in DOMAIN payment_webhook_logs :
        /\ payment_webhook_logs[d].is_processed
        /\ payment_webhook_logs[d].raw_body.input_ResultCode = "INS-6"
        /\ payment_transactions[payment_webhook_logs[d].transaction_id].status = FAILED
        /\ transitions[payment_webhook_logs[d].transaction_id] = 1
        /\ \E e \in Cbs : e # d /\ deliveries[e].raised

\* C17: a delivery that ends without raising while a transaction its payload
\* names is terminal changes no transaction, commits its webhook log row
\* unprocessed and is acknowledged "0".
C17_TerminalCallbackNoOp ==
    [][\A d \in Cbs :
          (/\ deliveries[d].pc = "located"
           /\ deliveries'[d].pc = "done"
           /\ ~deliveries'[d].raised
           /\ \E t \in Named(deliveries[d].callback_data) :
                 payment_transactions[t].status \in Terminal)
          => /\ payment_transactions' = payment_transactions
             /\ transitions' = transitions
             /\ d \in DOMAIN payment_webhook_logs'
             /\ ~payment_webhook_logs'[d].is_processed
             /\ deliveries'[d].output_ResponseCode = "0"]_vars

\* a late callback for a transaction the sweep had moved to EXPIRED
C17_Witness ==
    \E d \in DOMAIN payment_webhook_logs :
        /\ payment_webhook_logs[d].processing_error = "Already processed"
        /\ payment_webhook_logs[d].raw_body.input_ResultCode = "0"
        /\ payment_transactions[payment_webhook_logs[d].transaction_id].status = EXPIRED
        /\ deliveries[d].output_ResponseCode = "0"

\* C18: a callback applied to a PENDING transaction makes it COMPLETED, with
\* the provider transaction id, completed_at and the net amount stored, when
\* the result code is "0", and FAILED, with the table's message for the
\* result code stored as the reason, for every other result code.
C18_CallbackOutcome ==
    [][\A d \in Cbs :
          (/\ deliveries[d].pc = "located"
           /\ deliveries'[d].pc = "done"
           /\ ~deliveries'[d].raised
           /\ deliveries[d].found # 0
           /\ deliveries[d].transaction.status = PENDING)
          => LET t == deliveries[d].found
                 callback_data == deliveries[d].callback_data
             IN  IF callback_data.input_ResultCode = "0"
                 THEN /\ payment_transactions'[t].status = COMPLETED
                      /\ payment_transactions'[t].provider_transaction_id =
                             callback_data.input_TransactionID
                      /\ payment_transactions'[t].completed_at # None
                      /\ payment_transactions'[t].net_amount =
                             payment_transactions[t].amount
                 ELSE /\ payment_transactions'[t].status = FAILED
                      /\ payment_transactions'[t].provider_response_description =
                             get_error_message(callback_data.input_ResultCode)]_vars

\* C19: a call made with an amount below the minimum or above the maximum
\* ends with a validation error, has no row and has not reached the
\* provider; every row and every posted request carries an amount within the
\* limits.
C19_InvalidAmountRejected ==
    /\ \A s \in Inits :
          (calls[s].pc # "idle" /\ (calls[s].amount < MinAmount \/ calls[s].amount > MaxAmount))
          => /\ calls[s].error_code = "VALIDATION_ERROR"
             /\ s \notin Rows
             /\ s \notin contacted
    /\ \A t \in Rows :
          /\ payment_transactions[t].amount >= MinAmount
          /\ payment_transactions[t].amount <= MaxAmount

C19_Witness ==
    \E s1, s2 \in Inits :
        /\ calls[s1].amount = MinAmount - 1
        /\ calls[s1].error_code = "VALIDATION_ERROR"
        /\ calls[s2].amount = MaxAmount + 1
        /\ calls[s2].error_code = "VALIDATION_ERROR"
        /\ Rows = {}
        /\ contacted = {}

\* C20: a call whose encryption of the API key fails ends with
\* ENCRYPTION_ERROR without posting to the provider and without writing its
\* committed row, and the row stays as it was created (PENDING, or EXPIRED
\* once swept).
C20_EncryptionLeavesPending ==
    [][\A s \in Inits :
          /\ (calls[s].pc = "created" /\ calls'[s].error_code = "ENCRYPTION_ERROR")
             => /\ payment_transactions' = payment_transactions
                /\ s \notin contacted'
                /\ payment_transactions[s].status = PENDING
          /\ calls[s].error_code = "ENCRYPTION_ERROR"
             => /\ s \notin contacted
                /\ \E status \in {PENDING, EXPIRED} :
                      payment_transactions[s] =
                          [PaymentTransaction(s, calls[s].idempotency_key,
                                              calls[s].amount)
                              EXCEPT !.status = status]]_vars

C20_Witness ==
    \E s \in Inits :
        /\ calls[s].error_code = "ENCRYPTION_ERROR"
        /\ Done(s)
        /\ s \in Rows
        /\ payment_transactions[s].status = PENDING
        /\ s \notin contacted
        /\ contacted # {}

\* C21: a status poll changes no transaction, webhook log or audit row; it
\* answers NOT_FOUND for an id no transaction has and the transaction's
\* current status for a known id.
C21_StatusReadOnly ==
    [][\A p \in Polls :
          (polls[p].pc = "idle" /\ polls'[p].pc = "done")
          => /\ payment_transactions' = payment_transactions
             /\ payment_webhook_logs' = payment_webhook_logs
             /\ payment_audit_logs' = payment_audit_logs
             /\ LET match == {t \in Rows :
                               payment_transactions[t].transaction_id =
                                   polls'[p].transaction_id}
                IN  IF match = {} THEN polls'[p].status = "NOT_FOUND"
                    ELSE \A t \in match :
                            polls'[p].status = payment_transactions[t].status]_vars

C21_Witness ==
    \E p \in Polls :
        /\ polls[p].pc = "done"
        /\ polls[p].transaction_id = generate_transaction_id(1)
        /\ polls[p].status = COMPLETED
        /\ payment_transactions[1].status = COMPLETED

\* C22: no step changes the amount of an existing transaction.
C22_AmountNeverChanges ==
    [][\A t \in Rows :
          payment_transactions'[t].amount = payment_transactions[t].amount]_vars

\* a replay with another amount, an acceptance and a callback have all acted
C22_Witness ==
    \E s1, s2 \in Inits :
        /\ s1 # s2
        /\ calls[s2].pc = "done" /\ calls[s2].key_existed
        /\ calls[s2].error_code = "OK"
        /\ calls[s2].amount # calls[s1].amount
        /\ Done(s1) /\ Accepted(calls[s1].response)
        /\ payment_transactions[s1].status = COMPLETED
        /\ payment_transactions[s1].amount = calls[s1].amount

\* C23: every transaction has an audit log entry tied to it (its initiation),
\* and every applied callback has one.
C23_AuditTrail ==
    /\ \A t \in Rows :
          \E a \in payment_audit_logs : a.transaction_id = t
    /\ \A t \in Rows :
          transitions[t] >= 1
          => \E a \in payment_audit_logs :
                a.transaction_id = t /\ a.action = "callback_received"

\* C24: a PENDING transaction does not stay PENDING for ever; one that left
\* PENDING without a callback and without a rejection by the provider is
\* EXPIRED; the sweep changes only the status of rows that are PENDING.
C24_EventuallyExpired ==
    /\ \A t \in SmallInits :
          (t \in Rows /\ payment_transactions[t].status = PENDING)
          ~> (t \in Rows /\ payment_transactions[t].status # PENDING)
    /\ [](\A t \in Rows :
            (/\ payment_transactions[t].status # PENDING
             /\ transitions[t] = 0
             /\ ~Rejected(t))
            => payment_transactions[t].status = EXPIRED)
    /\ [][\A t \in Rows :
            (payment_transactions[t].status \in Terminal \ {EXPIRED})
            => payment_transactions'[t].status # EXPIRED]_vars

C24_Witness ==
    \E t \in Rows :
        /\ payment_transactions[t].status = EXPIRED
        /\ calls[t].error_code = "NETWORK_ERROR"
        /\ transitions[t] = 0
        /\ \E d \in Cbs : /\ d \in DOMAIN payment_webhook_logs
                          /\ payment_webhook_logs[d].transaction_id = t

\* C25: when a success callback was applied before the call handles the
\* provider's synchronous answer, the handling leaves the
\* provider_transaction_id and the provider_response_code as the callback
\* wrote them.
C25_CallbackFieldsKept ==
    [][\A s \in Inits :
          (/\ calls[s].pc = "responded"
           /\ calls'[s].pc = "done"
           /\ SuccessApplied(s))
          => /\ payment_transactions'[s].provider_transaction_id =
                    payment_transactions[s].provider_transaction_id
             /\ payment_transactions'[s].provider_response_code =
                    payment_transactions[s].provider_response_code]_vars

\* C26: a call whose commit of the new row fails ends with DB_ERROR, and a
\* call that ended with DB_ERROR has no row and has not posted to the
\* provider.
C26_CommitFailure ==
    [][\A s \in Inits :
          /\ (calls[s].pc = "checked" /\ calls'[s].pc # "checked"
                 /\ s \notin DOMAIN payment_transactions')
             => /\ calls'[s].pc = "done"
                /\ calls'[s].error_code = "DB_ERROR"
                /\ contacted' = contacted
          /\ calls[s].error_code = "DB_ERROR"
             => /\ s \notin Rows
                /\ s \notin contacted]_vars

\* a concurrent duplicate lost the INSERT and a keyless call hit a storage
\* error
C26_Witness ==
    \E s1, s2 \in Inits :
        /\ s1 # s2
        /\ calls[s1].error_code = "DB_ERROR" /\ calls[s2].error_code = "DB_ERROR"
        /\ calls[s1].idempotency_key = NoKey
        /\ calls[s2].idempotency_key \in Keys
        /\ Rows = {} /\ contacted = {}

\* C27: the webhook log row of a payload that names an existing transaction
\* is linked to that transaction and is no 'Transaction not found' row.
C27_NamedCallbackLinked ==
    \A d \in DOMAIN payment_webhook_logs :
        Named(payment_webhook_logs[d].raw_body) # {}
        => /\ payment_webhook_logs[d].transaction_id
                  \in Named(payment_webhook_logs[d].raw_body)
           /\ payment_webhook_logs[d].processing_error # "Transaction not found"

\* C28: the input_Amount posted to the provider equals the amount stored on
\* the transaction, and the net_amount recorded on completion equals it too.
C28_AmountPosted ==
    \A s \in contacted :
        /\ input_Amount[s] * 100 = payment_transactions[s].amount
        /\ payment_transactions[s].net_amount # NullAmount
           => payment_transactions[s].net_amount = input_Amount[s] * 100

\* C29: completed_at and net_amount are set exactly on COMPLETED
\* transactions, and a net_amount that is set equals the amount.
C29_CompletionFields ==
    \A t \in Rows :
        /\ payment_transactions[t].completed_at # None
           <=> payment_transactions[t].status = COMPLETED
        /\ payment_transactions[t].net_amount # NullAmount
           <=> payment_transactions[t].status = COMPLETED
        /\ payment_transactions[t].net_amount # NullAmount
           => payment_transactions[t].net_amount = payment_transactions[t].amount

\* C30: a callback without a result code, processed for a PENDING
\* transaction, leaves the transaction's status as it is.
C30_NoResultCodeNoChange ==
    [][\A d \in Cbs :
          (/\ deliveries[d].pc = "located"
           /\ deliveries'[d].pc = "done"
           /\ deliveries[d].found # 0
           /\ deliveries[d].callback_data.input_ResultCode = None)
          => payment_transactions'[deliveries[d].found].status =
                 payment_transactions[deliveries[d].found].status]_vars

====
